---- MODULE Spec2Model ----
(***************************************************************************)
(* ReQue: the request tracker's database (tables, row level security       *)
(* policies, logging triggers) and the client-side permission hook that    *)
(* mirrors the policies.                                                   *)
(*                                                                         *)
(* A nullable column holds <<>> for SQL NULL and <<v>> for the value v, so *)
(* that "col = x" is true only for a non-null col, as in SQL.  uuids are   *)
(* the numbers 1..NumUsers (users) and the values of the id counters.      *)
(***************************************************************************)
EXTENDS Integers, Sequences, FiniteSets, TLC

VARIABLES authUsers, profiles, requests, comments, attachments, activity,
          nextRequestId, nextCommentId, nextAttachmentId, nextActivityId,
          statements,
          auth, protectedRoute, router, toasts, newRequest, requestDetail

\* the database
dbVars == <<authUsers, profiles, requests, comments, attachments, activity,
            nextRequestId, nextCommentId, nextAttachmentId, nextActivityId,
            statements>>

\* the browser: the auth context, the mounted components, the pushes of the
\* router and the toasts raised
pageVars == <<auth, protectedRoute, router, toasts, newRequest, requestDetail>>

vars == <<authUsers, profiles, requests, comments, attachments, activity,
          nextRequestId, nextCommentId, nextAttachmentId, nextActivityId,
          statements,
          auth, protectedRoute, router, toasts, newRequest, requestDetail>>

----------------------------------------------------------------------------
(* Bounds of the model *)

NumUsers == 2
MaxRequests == 1
MaxComments == 1
MaxAttachments == 1
MaxActivity == 3
MaxDate == 1
MaxStatements == 5

Users == 1..NumUsers
Dates == 1..MaxDate

----------------------------------------------------------------------------
(* Column types *)

NULL == <<>>
Some(v) == <<v>>
Nullable(S) == {NULL} \cup {Some(v) : v \in S}

UserRole == {"admin", "team_member", "user", "guest"}
RequestStatus == {"new", "in_progress", "under_review", "completed", "rejected"}
RequestPriority == {"normal", "high", "urgent"}

\* values the model's principals send
Titles == {"t1"}
StatusInputs == {"new", "in_progress"}
PriorityInputs == {"normal", "high"}
Filenames == {"f1"}
CommentTexts == {"c1", "c2"}
ActivityTypeInputs == {"request_created", "status_changed"}
\* raw_user_meta_data->>'role': absent, a label of user_role, or another text
MetaRoles == Nullable(UserRole \cup {"bogus"})

\* no row of profiles for this id
NoProfile == "none"

----------------------------------------------------------------------------
(* ::text casts *)

UuidText(u) == <<"uuid-1", "uuid-2", "uuid-3", "uuid-4">>[u]
DateText(d) == <<"2025-01-01", "2025-01-02", "2025-01-03">>[d]
EnumText(e) == e

\* the cast of a nullable column: NULL::text is NULL
UuidCast(col) == IF col = NULL THEN NULL ELSE Some(UuidText(col[1]))
DateCast(col) == IF col = NULL THEN NULL ELSE Some(DateText(col[1]))

----------------------------------------------------------------------------
(* Lookups used by the policies: EXISTS (SELECT 1 FROM profiles p WHERE    *)
(* p.id = auth.uid() AND p.role IN (...))                                  *)

ProfileExists(u) == profiles[u] # NoProfile
ProfileRoleIn(uid, roles) == profiles[uid] \in roles

RequestById(rid) == {r \in requests : r.id = rid}

----------------------------------------------------------------------------
(* Row level security policies in force after the last migration.          *)
(* uid is auth.uid() of an authenticated principal; row is the row the     *)
(* policy is evaluated for (USING: the stored row, WITH CHECK: the new row)*)
(* A subquery of a policy reads the tables as the statement found them, so *)
(* a role it looks up is the stored role, not the one being written.       *)

\* "Users can read accessible profiles"
ProfilesSelectUsing(uid, id) ==
    \/ id = uid
    \/ ProfileRoleIn(uid, {"admin"})

\* "Users can insert own profile"
ProfilesInsertCheck(uid, id) == id = uid

\* "Users can update accessible profiles", USING
ProfilesUpdateUsing(uid, id) ==
    \/ id = uid
    \/ ProfileRoleIn(uid, {"admin"})

\* as the check would read without the comparison of the role
ProfilesUpdateCheck_AnyRole(uid, id, role) ==
    \/ id = uid /\ ProfileExists(uid)
    \/ ProfileRoleIn(uid, {"admin"})

\* "Users can update accessible profiles", WITH CHECK; the subquery reads the
\* stored role of the principal's own profile
ProfilesUpdateCheck(uid, id, role) ==
    \/ id = uid /\ ProfileExists(uid) /\ role = profiles[uid]
    \/ ProfileRoleIn(uid, {"admin"})

\* as the policy would read if only admins could read every request
RequestsSelectUsing_AdminOnly(uid, row) ==
    \/ row.created_by = uid
    \/ ProfileRoleIn(uid, {"admin"})

\* "Users can read accessible requests"
RequestsSelectUsing(uid, row) ==
    \/ row.created_by = uid
    \/ ProfileRoleIn(uid, {"admin", "team_member"})

\* as the policy would read without the role test
RequestsInsertCheck_AnyRole(uid, row) ==
    /\ row.created_by = uid
    /\ ProfileExists(uid)

\* "Authenticated users can create requests"
RequestsInsertCheck(uid, row) ==
    /\ row.created_by = uid
    /\ ProfileRoleIn(uid, {"admin", "team_member", "user"})

\* "Users can update accessible requests" (USING and WITH CHECK are the same
\* expression)
\* as the policy would read without the role test on the assignee
RequestsUpdateUsing_AnyAssignee(uid, row) ==
    \/ row.created_by = uid
    \/ row.assigned_to = Some(uid)
    \/ ProfileRoleIn(uid, {"admin"})

RequestsUpdateUsing(uid, row) ==
    \/ row.created_by = uid
    \/ row.assigned_to = Some(uid) /\ ProfileRoleIn(uid, {"team_member"})
    \/ ProfileRoleIn(uid, {"admin"})

RequestsUpdateCheck(uid, row) ==
    \/ row.created_by = uid
    \/ row.assigned_to = Some(uid) /\ ProfileRoleIn(uid, {"team_member"})
    \/ ProfileRoleIn(uid, {"admin"})

\* as the policy would read if team members could delete too
RequestsDeleteUsing_TeamToo(uid, row) ==
    \/ row.created_by = uid
    \/ ProfileRoleIn(uid, {"admin", "team_member"})

\* "Users can delete accessible requests"
RequestsDeleteUsing(uid, row) ==
    \/ row.created_by = uid
    \/ ProfileRoleIn(uid, {"admin"})

\* "Users can read attachments for viewable requests"
AttachmentsSelectUsing(uid, row) ==
    \E r \in RequestById(row.request_id) :
        \/ r.created_by = uid
        \/ ProfileRoleIn(uid, {"admin", "team_member"})

\* "Users can insert attachments for editable requests"
AttachmentsInsertCheck(uid, row) ==
    /\ row.uploaded_by = uid
    /\ \E r \in RequestById(row.request_id) :
          \/ r.created_by = uid
          \/ r.assigned_to = Some(uid)
          \/ ProfileRoleIn(uid, {"admin"})

\* "Users can delete accessible attachments"
AttachmentsDeleteUsing(uid, row) ==
    \/ row.uploaded_by = uid
    \/ ProfileRoleIn(uid, {"admin"})

\* "Users can read comments for viewable requests"
CommentsSelectUsing(uid, row) ==
    \E r \in RequestById(row.request_id) :
        \/ r.created_by = uid
        \/ ProfileRoleIn(uid, {"admin", "team_member"})

\* "Users can insert comments on viewable requests"
CommentsInsertCheck(uid, row) ==
    /\ row.user_id = uid
    /\ \E r \in RequestById(row.request_id) :
          \/ r.created_by = uid
          \/ ProfileRoleIn(uid, {"admin", "team_member"})

\* "Users can update own comments" (USING and WITH CHECK)
CommentsUpdateUsing(uid, row) == row.user_id = uid
CommentsUpdateCheck(uid, row) == row.user_id = uid

\* "Users can delete accessible comments"
CommentsDeleteUsing(uid, row) ==
    \/ row.user_id = uid
    \/ ProfileRoleIn(uid, {"admin"})

\* as the policy would read if only the creator could read the log
ActivitySelectUsing_CreatorOnly(uid, row) ==
    \E r \in RequestById(row.request_id) : r.created_by = uid

\* "Users can read activity for viewable requests"
ActivitySelectUsing(uid, row) ==
    \E r \in RequestById(row.request_id) :
        \/ r.created_by = uid
        \/ ProfileRoleIn(uid, {"admin", "team_member"})

\* "System can insert activity"
ActivityInsertCheck(uid, row) == row.user_id = uid

----------------------------------------------------------------------------
(* The policy catalogue, migration by migration.  A policy is known by its *)
(* table and name; CREATE POLICY adds it, DROP POLICY IF EXISTS removes it.*)
(* A principal is NULL for the anon role (auth.uid() is null) and Some(id) *)
(* for the authenticated role.                                             *)

Principals == Nullable(Users)

Policy(table, cmd, role, name, migration) ==
    [table |-> table, cmd |-> cmd, role |-> role, name |-> name,
     migration |-> migration]

\* the policies of the migration that creates profiles
ProfilesMigrationCreated ==
    { Policy("profiles", "SELECT", "authenticated", "Users can read own profile", "profiles"),
      Policy("profiles", "SELECT", "authenticated", "Admins can read all profiles", "profiles"),
      Policy("profiles", "UPDATE", "authenticated", "Users can update own profile", "profiles"),
      Policy("profiles", "UPDATE", "authenticated", "Admins can update any profile", "profiles"),
      Policy("profiles", "INSERT", "authenticated", "Users can insert own profile", "profiles") }

\* the policies of the migration that creates the request tables
RequestsMigrationCreated ==
    { Policy("requests", "SELECT", "authenticated", "Users can read own requests", "requests"),
      Policy("requests", "SELECT", "authenticated", "Admins and team members can read all requests", "requests"),
      Policy("requests", "INSERT", "authenticated", "Authenticated users can create requests", "requests"),
      Policy("requests", "UPDATE", "authenticated", "Users can update own requests", "requests"),
      Policy("requests", "UPDATE", "authenticated", "Admins can update any request", "requests"),
      Policy("requests", "UPDATE", "authenticated", "Team members can update assigned requests", "requests"),
      Policy("requests", "DELETE", "authenticated", "Users can delete own requests", "requests"),
      Policy("requests", "DELETE", "authenticated", "Admins can delete any request", "requests"),
      Policy("request_attachments", "SELECT", "authenticated", "Users can read attachments for viewable requests", "requests"),
      Policy("request_attachments", "INSERT", "authenticated", "Users can insert attachments for editable requests", "requests"),
      Policy("request_attachments", "DELETE", "authenticated", "Users can delete own attachments", "requests"),
      Policy("request_attachments", "DELETE", "authenticated", "Admins can delete any attachment", "requests"),
      Policy("request_comments", "SELECT", "authenticated", "Users can read comments for viewable requests", "requests"),
      Policy("request_comments", "INSERT", "authenticated", "Users can insert comments on viewable requests", "requests"),
      Policy("request_comments", "UPDATE", "authenticated", "Users can update own comments", "requests"),
      Policy("request_comments", "DELETE", "authenticated", "Users can delete own comments", "requests"),
      Policy("request_comments", "DELETE", "authenticated", "Admins can delete any comment", "requests"),
      Policy("request_activity", "SELECT", "authenticated", "Users can read activity for viewable requests", "requests"),
      Policy("request_activity", "INSERT", "authenticated", "System can insert activity", "requests") }

\* 20251107190543_fix_profile_creation_rls_policies
FixDropped ==
    { <<"profiles", "Users can read own profile">>,
      <<"profiles", "Admins can read all profiles">>,
      <<"profiles", "Users can insert own profile">> }

FixCreated ==
    { Policy("profiles", "SELECT", "authenticated", "Users can read own profile", "fix"),
      Policy("profiles", "SELECT", "anon", "Allow profile read during signup", "fix"),
      Policy("profiles", "SELECT", "authenticated", "Admins can read all profiles", "fix"),
      Policy("profiles", "INSERT", "authenticated", "Users can insert own profile", "fix"),
      Policy("profiles", "INSERT", "anon", "Allow profile creation during signup", "fix") }

\* as STEP 1 would read without the two DROPs of the signup policies
OptimizeDropped_KeepsSignupPolicies ==
    { <<"profiles", "Users can read own profile">>,
      <<"profiles", "Admins can read all profiles">>,
      <<"profiles", "Users can update own profile">>,
      <<"profiles", "Admins can update any profile">>,
      <<"profiles", "Users can insert own profile">>,
      <<"requests", "Users can read own requests">>,
      <<"requests", "Admins and team members can read all requests">>,
      <<"requests", "Authenticated users can create requests">>,
      <<"requests", "Users can update own requests">>,
      <<"requests", "Admins can update any request">>,
      <<"requests", "Team members can update assigned requests">>,
      <<"requests", "Users can delete own requests">>,
      <<"requests", "Admins can delete any request">>,
      <<"request_attachments", "Users can read attachments for viewable requests">>,
      <<"request_attachments", "Users can insert attachments for editable requests">>,
      <<"request_attachments", "Users can delete own attachments">>,
      <<"request_attachments", "Admins can delete any attachment">>,
      <<"request_comments", "Users can read comments for viewable requests">>,
      <<"request_comments", "Users can insert comments on viewable requests">>,
      <<"request_comments", "Users can update own comments">>,
      <<"request_comments", "Users can delete own comments">>,
      <<"request_comments", "Admins can delete any comment">>,
      <<"request_activity", "Users can read activity for viewable requests">>,
      <<"request_activity", "System can insert activity">> }

\* 20251107202226_optimize_indexes, STEP 1: DROP ALL EXISTING POLICIES
OptimizeDropped ==
    { <<"profiles", "Users can read own profile">>,
      <<"profiles", "Admins can read all profiles">>,
      <<"profiles", "Users can update own profile">>,
      <<"profiles", "Admins can update any profile">>,
      <<"profiles", "Users can insert own profile">>,
      <<"profiles", "Allow profile read during signup">>,
      <<"profiles", "Allow profile creation during signup">>,
      <<"requests", "Users can read own requests">>,
      <<"requests", "Admins and team members can read all requests">>,
      <<"requests", "Authenticated users can create requests">>,
      <<"requests", "Users can update own requests">>,
      <<"requests", "Admins can update any request">>,
      <<"requests", "Team members can update assigned requests">>,
      <<"requests", "Users can delete own requests">>,
      <<"requests", "Admins can delete any request">>,
      <<"request_attachments", "Users can read attachments for viewable requests">>,
      <<"request_attachments", "Users can insert attachments for editable requests">>,
      <<"request_attachments", "Users can delete own attachments">>,
      <<"request_attachments", "Admins can delete any attachment">>,
      <<"request_comments", "Users can read comments for viewable requests">>,
      <<"request_comments", "Users can insert comments on viewable requests">>,
      <<"request_comments", "Users can update own comments">>,
      <<"request_comments", "Users can delete own comments">>,
      <<"request_comments", "Admins can delete any comment">>,
      <<"request_activity", "Users can read activity for viewable requests">>,
      <<"request_activity", "System can insert activity">> }

\* 20251107202226_optimize_indexes, STEPS 2 to 6
OptimizeCreated ==
    { Policy("profiles", "SELECT", "authenticated", "Users can read accessible profiles", "optimize"),
      Policy("profiles", "INSERT", "authenticated", "Users can insert own profile", "optimize"),
      Policy("profiles", "UPDATE", "authenticated", "Users can update accessible profiles", "optimize"),
      Policy("requests", "SELECT", "authenticated", "Users can read accessible requests", "optimize"),
      Policy("requests", "INSERT", "authenticated", "Authenticated users can create requests", "optimize"),
      Policy("requests", "UPDATE", "authenticated", "Users can update accessible requests", "optimize"),
      Policy("requests", "DELETE", "authenticated", "Users can delete accessible requests", "optimize"),
      Policy("request_attachments", "SELECT", "authenticated", "Users can read attachments for viewable requests", "optimize"),
      Policy("request_attachments", "INSERT", "authenticated", "Users can insert attachments for editable requests", "optimize"),
      Policy("request_attachments", "DELETE", "authenticated", "Users can delete accessible attachments", "optimize"),
      Policy("request_comments", "SELECT", "authenticated", "Users can read comments for viewable requests", "optimize"),
      Policy("request_comments", "INSERT", "authenticated", "Users can insert comments on viewable requests", "optimize"),
      Policy("request_comments", "UPDATE", "authenticated", "Users can update own comments", "optimize"),
      Policy("request_comments", "DELETE", "authenticated", "Users can delete accessible comments", "optimize"),
      Policy("request_activity", "SELECT", "authenticated", "Users can read activity for viewable requests", "optimize"),
      Policy("request_activity", "INSERT", "authenticated", "System can insert activity", "optimize") }

ApplyMigration(catalogue, dropped, created) ==
    {p \in catalogue : <<p.table, p.name>> \notin dropped} \cup created

\* the catalogue the optimization migration finds
PoliciesBeforeOptimization ==
    ApplyMigration(ProfilesMigrationCreated \cup RequestsMigrationCreated,
                   FixDropped, FixCreated)

\* the catalogue after the last migration
PoliciesAfterAllMigrations ==
    ApplyMigration(PoliciesBeforeOptimization, OptimizeDropped, OptimizeCreated)

\* USING of a policy created before the optimization migration; a profiles
\* row is [id, role]
OriginalUsing(name, principal, row) ==
    LET uid == principal[1] IN
    CASE name = "Users can read own profile" -> uid = row.id
      [] name = "Allow profile read during signup" -> TRUE
      [] name = "Admins can read all profiles" -> ProfileRoleIn(uid, {"admin"})
      [] name = "Users can update own profile" -> uid = row.id
      [] name = "Admins can update any profile" -> ProfileRoleIn(uid, {"admin"})
      [] name = "Users can read own requests" -> row.created_by = uid
      [] name = "Admins and team members can read all requests" ->
            ProfileRoleIn(uid, {"admin", "team_member"})
      [] name = "Users can update own requests" -> row.created_by = uid
      [] name = "Admins can update any request" -> ProfileRoleIn(uid, {"admin"})
      [] name = "Team members can update assigned requests" ->
            row.assigned_to = Some(uid) /\ ProfileRoleIn(uid, {"team_member"})
      [] name = "Users can delete own requests" -> row.created_by = uid
      [] name = "Admins can delete any request" -> ProfileRoleIn(uid, {"admin"})
      [] name \in {"Users can read attachments for viewable requests",
                   "Users can read comments for viewable requests",
                   "Users can read activity for viewable requests"} ->
            \E r \in RequestById(row.request_id) :
                \/ r.created_by = uid
                \/ ProfileRoleIn(uid, {"admin", "team_member"})
      [] name = "Users can delete own attachments" -> row.uploaded_by = uid
      [] name = "Admins can delete any attachment" -> ProfileRoleIn(uid, {"admin"})
      [] name = "Users can update own comments" -> row.user_id = uid
      [] name = "Users can delete own comments" -> row.user_id = uid
      [] name = "Admins can delete any comment" -> ProfileRoleIn(uid, {"admin"})

\* WITH CHECK of a policy created before the optimization migration
OriginalCheck(name, principal, row) ==
    LET uid == principal[1] IN
    CASE name = "Users can update own profile" ->
            uid = row.id /\ ProfileExists(uid) /\ row.role = profiles[uid]
      [] name = "Admins can update any profile" -> ProfileRoleIn(uid, {"admin"})
      [] name = "Users can insert own profile" -> uid = row.id
      [] name = "Allow profile creation during signup" -> TRUE
      [] name = "Authenticated users can create requests" ->
            row.created_by = uid /\ ProfileRoleIn(uid, {"admin", "team_member", "user"})
      [] name = "Users can update own requests" -> row.created_by = uid
      [] name = "Admins can update any request" -> ProfileRoleIn(uid, {"admin"})
      [] name = "Team members can update assigned requests" ->
            row.assigned_to = Some(uid) /\ ProfileRoleIn(uid, {"team_member"})
      [] name = "Users can insert attachments for editable requests" ->
            /\ row.uploaded_by = uid
            /\ \E r \in RequestById(row.request_id) :
                  \/ r.created_by = uid
                  \/ r.assigned_to = Some(uid)
                  \/ ProfileRoleIn(uid, {"admin"})
      [] name = "Users can insert comments on viewable requests" ->
            /\ row.user_id = uid
            /\ \E r \in RequestById(row.request_id) :
                  \/ r.created_by = uid
                  \/ ProfileRoleIn(uid, {"admin", "team_member"})
      [] name = "Users can update own comments" -> row.user_id = uid
      [] name = "System can insert activity" -> row.user_id = uid

\* USING of a policy created by the optimization migration
ConsolidatedUsing(name, principal, row) ==
    LET uid == principal[1] IN
    CASE name = "Users can read accessible profiles" -> ProfilesSelectUsing(uid, row.id)
      [] name = "Users can update accessible profiles" -> ProfilesUpdateUsing(uid, row.id)
      [] name = "Users can read accessible requests" -> RequestsSelectUsing(uid, row)
      [] name = "Users can update accessible requests" -> RequestsUpdateUsing(uid, row)
      [] name = "Users can delete accessible requests" -> RequestsDeleteUsing(uid, row)
      [] name = "Users can read attachments for viewable requests" ->
            AttachmentsSelectUsing(uid, row)
      [] name = "Users can delete accessible attachments" -> AttachmentsDeleteUsing(uid, row)
      [] name = "Users can read comments for viewable requests" ->
            CommentsSelectUsing(uid, row)
      [] name = "Users can update own comments" -> CommentsUpdateUsing(uid, row)
      [] name = "Users can delete accessible comments" -> CommentsDeleteUsing(uid, row)
      [] name = "Users can read activity for viewable requests" ->
            ActivitySelectUsing(uid, row)

\* WITH CHECK of a policy created by the optimization migration
ConsolidatedCheck(name, principal, row) ==
    LET uid == principal[1] IN
    CASE name = "Users can insert own profile" -> ProfilesInsertCheck(uid, row.id)
      [] name = "Users can update accessible profiles" ->
            ProfilesUpdateCheck(uid, row.id, row.role)
      [] name = "Authenticated users can create requests" -> RequestsInsertCheck(uid, row)
      [] name = "Users can update accessible requests" -> RequestsUpdateCheck(uid, row)
      [] name = "Users can insert attachments for editable requests" ->
            AttachmentsInsertCheck(uid, row)
      [] name = "Users can insert comments on viewable requests" ->
            CommentsInsertCheck(uid, row)
      [] name = "Users can update own comments" -> CommentsUpdateCheck(uid, row)
      [] name = "System can insert activity" -> ActivityInsertCheck(uid, row)

PolicyUsing(p, principal, row) ==
    IF p.migration = "optimize" THEN ConsolidatedUsing(p.name, principal, row)
    ELSE OriginalUsing(p.name, principal, row)

PolicyCheck(p, principal, row) ==
    IF p.migration = "optimize" THEN ConsolidatedCheck(p.name, principal, row)
    ELSE OriginalCheck(p.name, principal, row)

\* the permissive policies that apply to a statement: same table, same
\* command, and the role the principal connects with
Applicable(catalogue, principal, table, cmd) ==
    {p \in catalogue :
        /\ p.table = table /\ p.cmd = cmd
        /\ p.role = IF principal = NULL THEN "anon" ELSE "authenticated"}

\* row level security is enabled on every table: a row passes when some
\* applicable policy admits it.  old is the stored row (SELECT, UPDATE,
\* DELETE), new the row to be written (INSERT, UPDATE).
Admits(catalogue, principal, table, cmd, old, new) ==
    LET policies == Applicable(catalogue, principal, table, cmd) IN
    CASE cmd \in {"SELECT", "DELETE"} ->
            \E p \in policies : PolicyUsing(p, principal, old)
      [] cmd = "INSERT" ->
            \E p \in policies : PolicyCheck(p, principal, new)
      [] cmd = "UPDATE" ->
            /\ \E p \in policies : PolicyUsing(p, principal, old)
            /\ \E p \in policies : PolicyCheck(p, principal, new)

\* the stored rows of profiles as [id, role]
ProfileRows == {[id |-> u, role |-> profiles[u]] : u \in {v \in Users : ProfileExists(v)}}

----------------------------------------------------------------------------
(* usePermissions(): the hook's flags and predicates.  user is NULL when   *)
(* nobody is signed in, else Some(id); role is profile?.role || null, the  *)
(* profile being the stored row of the signed-in user.                     *)

HookRole(user) ==
    IF user # NULL /\ ProfileExists(user[1]) THEN Some(profiles[user[1]]) ELSE NULL

isAdmin(user) == HookRole(user) = Some("admin")
isTeamMember(user) == HookRole(user) = Some("team_member")
isUser(user) == HookRole(user) = Some("user")
isGuest(user) == HookRole(user) = Some("guest")

canCreateRequest(user) == isAdmin(user) \/ isTeamMember(user) \/ isUser(user)
canViewAllRequests(user) == isAdmin(user) \/ isTeamMember(user)

canEditRequest(user, createdBy, assignedTo) ==
    IF user = NULL THEN FALSE
    ELSE IF isAdmin(user) THEN TRUE
    ELSE IF isTeamMember(user) /\ assignedTo = user THEN TRUE
    ELSE createdBy = user[1]

canDeleteRequest(user, createdBy) ==
    IF user = NULL THEN FALSE
    ELSE IF isAdmin(user) THEN TRUE
    ELSE createdBy = user[1]

canCommentOnRequest(user, createdBy) ==
    IF user = NULL THEN FALSE
    ELSE IF isGuest(user) THEN FALSE
    ELSE IF isAdmin(user) \/ isTeamMember(user) THEN TRUE
    ELSE createdBy = user[1]

canViewRequest(user, createdBy) ==
    IF user = NULL THEN FALSE
    ELSE IF isAdmin(user) \/ isTeamMember(user) THEN TRUE
    ELSE createdBy = user[1]

----------------------------------------------------------------------------
(* Trigger functions.  Each returns the rows it inserts into               *)
(* request_activity, without their ids; uid is auth.uid().                 *)

ActivityValues(rid, uid, type, old, new) ==
    [request_id |-> rid, user_id |-> uid, activity_type |-> type,
     old_value |-> old, new_value |-> new]

\* log_request_created, AFTER INSERT ON requests
log_request_created(new) ==
    <<ActivityValues(new.id, new.created_by, "request_created", NULL, Some(new.title))>>

\* as the function would log with <> in place of IS DISTINCT FROM for the
\* assignee: a comparison with NULL is not true, and nothing is logged
log_request_status_change_NullUnsafe(old, new, uid) ==
    (IF old.status # new.status
       THEN <<ActivityValues(new.id, uid, "status_changed",
                             Some(EnumText(old.status)), Some(EnumText(new.status)))>>
       ELSE <<>>)
    \o
    (IF old.priority # new.priority
       THEN <<ActivityValues(new.id, uid, "priority_changed",
                             Some(EnumText(old.priority)), Some(EnumText(new.priority)))>>
       ELSE <<>>)
    \o
    (IF old.assigned_to # NULL /\ new.assigned_to # NULL /\ old.assigned_to # new.assigned_to
       THEN <<ActivityValues(new.id, uid, "assignment_changed",
                             UuidCast(old.assigned_to),
                             UuidCast(new.assigned_to))>>
       ELSE <<>>)
    \o
    (IF old.due_date # new.due_date
       THEN <<ActivityValues(new.id, uid, "due_date_changed",
                             DateCast(old.due_date),
                             DateCast(new.due_date))>>
       ELSE <<>>)

\* log_request_status_change, AFTER UPDATE ON requests
log_request_status_change(old, new, uid) ==
    (IF old.status # new.status
       THEN <<ActivityValues(new.id, uid, "status_changed",
                             Some(EnumText(old.status)), Some(EnumText(new.status)))>>
       ELSE <<>>)
    \o
    (IF old.priority # new.priority
       THEN <<ActivityValues(new.id, uid, "priority_changed",
                             Some(EnumText(old.priority)), Some(EnumText(new.priority)))>>
       ELSE <<>>)
    \o
    (IF old.assigned_to # new.assigned_to
       THEN <<ActivityValues(new.id, uid, "assignment_changed",
                             UuidCast(old.assigned_to),
                             UuidCast(new.assigned_to))>>
       ELSE <<>>)
    \o
    (IF old.due_date # new.due_date
       THEN <<ActivityValues(new.id, uid, "due_date_changed",
                             DateCast(old.due_date),
                             DateCast(new.due_date))>>
       ELSE <<>>)

\* log_file_upload, AFTER INSERT ON request_attachments
log_file_upload(new) ==
    <<ActivityValues(new.request_id, new.uploaded_by, "file_uploaded", NULL, Some(new.filename))>>

\* handle_new_user, AFTER INSERT ON auth.users: the profiles table it leaves.
\* A metadata role that is no label of user_role makes the cast raise; the
\* handler catches it and no profile is inserted.
handle_new_user_DefaultGuest(id, metaRole) ==
    IF metaRole # NULL /\ metaRole[1] \notin UserRole THEN profiles
    ELSE IF ProfileExists(id) THEN profiles
    ELSE [profiles EXCEPT ![id] = IF metaRole = NULL THEN "guest" ELSE metaRole[1]]

handle_new_user(id, metaRole) ==
    IF metaRole # NULL /\ metaRole[1] \notin UserRole THEN profiles
    ELSE IF ProfileExists(id) THEN profiles
    ELSE [profiles EXCEPT ![id] = IF metaRole = NULL THEN "user" ELSE metaRole[1]]

\* the rows of a trigger, stored with ids gen_random_uuid() draws
StoredActivity(rows) ==
    {[id |-> nextActivityId + i - 1,
      request_id |-> rows[i].request_id, user_id |-> rows[i].user_id,
      activity_type |-> rows[i].activity_type,
      old_value |-> rows[i].old_value, new_value |-> rows[i].new_value]
     : i \in 1..Len(rows)}

\* request_activity's constraints: request_id and user_id reference existing
\* rows (the request may be the one the statement just wrote)
ActivityForeignKeys(rows, reqs) ==
    \A i \in 1..Len(rows) :
        /\ \E r \in reqs : r.id = rows[i].request_id
        /\ ProfileExists(rows[i].user_id)

RequestForeignKeys(row) ==
    /\ ProfileExists(row.created_by)
    /\ IF row.assigned_to = NULL THEN TRUE ELSE ProfileExists(row.assigned_to[1])

----------------------------------------------------------------------------
(* State *)

\* no page is open: nobody is signed in, nothing is mounted
NoPage ==
    /\ auth = [user |-> NULL, profile |-> NULL, loading |-> FALSE]
    /\ protectedRoute = [mounted |-> FALSE, page |-> "none", requireAuth |-> TRUE,
                         showTimeout |-> FALSE, timer |-> FALSE]
    /\ router = <<>>
    /\ toasts = <<>>
    /\ newRequest = [mounted |-> FALSE, title |-> <<>>, priority |-> "normal",
                     dueDate |-> NULL, loading |-> FALSE, awaiting |-> NULL]
    /\ requestDetail = [mounted |-> FALSE, request |-> NULL, loading |-> TRUE,
                        calls |-> {}, fetches |-> <<>>]

\* every statement counts against the number of statements a run executes
Executed ==
    /\ statements < MaxStatements
    /\ statements' = statements + 1
    /\ UNCHANGED pageVars

Init ==
    /\ authUsers = {}
    /\ profiles = [u \in Users |-> NoProfile]
    /\ requests = {}
    /\ comments = {}
    /\ attachments = {}
    /\ activity = {}
    /\ nextRequestId = 1
    /\ nextCommentId = 1
    /\ nextAttachmentId = 1
    /\ nextActivityId = 1
    /\ statements = 0
    /\ NoPage

\* as the signup would run with a trigger function that has no exception
\* handler: an error of the profile insert fails the insert of the user
SignUp_FailsOnError(u, metaRole) ==
    /\ Executed
    /\ u \notin authUsers
    /\ metaRole = NULL \/ metaRole \in {Some(r) : r \in UserRole}
    /\ authUsers' = authUsers \cup {u}
    /\ profiles' = handle_new_user(u, metaRole)
    /\ UNCHANGED <<requests, comments, attachments, activity,
                   nextRequestId, nextCommentId, nextAttachmentId, nextActivityId>>

\* a new row in auth.users; the trigger on_auth_user_created runs
SignUp(u, metaRole) ==
    /\ Executed
    /\ u \notin authUsers
    /\ authUsers' = authUsers \cup {u}
    /\ profiles' = handle_new_user(u, metaRole)
    /\ UNCHANGED <<requests, comments, attachments, activity,
                   nextRequestId, nextCommentId, nextAttachmentId, nextActivityId>>

\* as the deletion would run if requests.created_by had no ON DELETE CASCADE
DeleteUser_NoCascade(u) ==
    LET kept == requests
        nulled == {r \in kept : r.assigned_to = Some(u)}
        logged(r) == log_request_status_change(r, [r EXCEPT !.assigned_to = NULL], NULL)
    IN
    /\ Executed
    /\ u \in authUsers
    /\ \A r \in nulled : \A i \in 1..Len(logged(r)) : logged(r)[i].user_id # NULL
    /\ authUsers' = authUsers \ {u}
    /\ profiles' = [profiles EXCEPT ![u] = NoProfile]
    /\ requests' = {IF r \in nulled THEN [r EXCEPT !.assigned_to = NULL] ELSE r : r \in kept}
    /\ comments' = {c \in comments :
                        c.user_id # u /\ \E r \in kept : r.id = c.request_id}
    /\ attachments' = {a \in attachments :
                        a.uploaded_by # u /\ \E r \in kept : r.id = a.request_id}
    /\ activity' = {a \in activity :
                        a.user_id # u /\ \E r \in kept : r.id = a.request_id}
    /\ UNCHANGED <<nextRequestId, nextCommentId, nextAttachmentId, nextActivityId>>

\* DELETE FROM auth.users by the service, outside row level security (no
\* policy lets a client delete a profile).  ON DELETE CASCADE removes the
\* profile, the requests it created with their comments, attachments and
\* activity, and the comments, attachments and activity rows it is the user
\* of; ON DELETE SET NULL updates the requests assigned to it, which fires
\* on_request_changed: its 'assignment_changed' row carries auth.uid(), null
\* in this session, and user_id is NOT NULL, so the statement fails then.
DeleteUser(u) ==
    LET kept == {r \in requests : r.created_by # u}
        nulled == {r \in kept : r.assigned_to = Some(u)}
        logged(r) == log_request_status_change(r, [r EXCEPT !.assigned_to = NULL], NULL)
    IN
    /\ Executed
    /\ u \in authUsers
    /\ \A r \in nulled : \A i \in 1..Len(logged(r)) : logged(r)[i].user_id # NULL
    /\ authUsers' = authUsers \ {u}
    /\ profiles' = [profiles EXCEPT ![u] = NoProfile]
    /\ requests' = {IF r \in nulled THEN [r EXCEPT !.assigned_to = NULL] ELSE r : r \in kept}
    /\ comments' = {c \in comments :
                        c.user_id # u /\ \E r \in kept : r.id = c.request_id}
    /\ attachments' = {a \in attachments :
                        a.uploaded_by # u /\ \E r \in kept : r.id = a.request_id}
    /\ activity' = {a \in activity :
                        a.user_id # u /\ \E r \in kept : r.id = a.request_id}
    /\ UNCHANGED <<nextRequestId, nextCommentId, nextAttachmentId, nextActivityId>>

\* INSERT INTO profiles by the authenticated principal uid
InsertProfile(uid, id, role) ==
    /\ Executed
    /\ uid \in authUsers
    /\ id \in authUsers
    /\ ~ProfileExists(id)
    /\ ProfilesInsertCheck(uid, id)
    /\ profiles' = [profiles EXCEPT ![id] = role]
    /\ UNCHANGED <<authUsers, requests, comments, attachments, activity,
                   nextRequestId, nextCommentId, nextAttachmentId, nextActivityId>>

\* UPDATE profiles SET role = ... WHERE id = ...
UpdateProfile(uid, id, role) ==
    /\ Executed
    /\ uid \in authUsers
    /\ ProfileExists(id)
    /\ ProfilesUpdateUsing(uid, id)
    /\ ProfilesUpdateCheck(uid, id, role)
    /\ profiles' = [profiles EXCEPT ![id] = role]
    /\ UNCHANGED <<authUsers, requests, comments, attachments, activity,
                   nextRequestId, nextCommentId, nextAttachmentId, nextActivityId>>

\* INSERT INTO requests; the trigger on_request_created runs
InsertRequestStatement(uid, row) ==
    LET logged == log_request_created(row) IN
    /\ uid \in authUsers
    /\ nextRequestId <= MaxRequests
    /\ nextActivityId + Len(logged) - 1 <= MaxActivity
    /\ row.id = nextRequestId
    /\ RequestForeignKeys(row)
    /\ RequestsInsertCheck(uid, row)
    /\ ActivityForeignKeys(logged, requests \cup {row})
    /\ requests' = requests \cup {row}
    /\ activity' = activity \cup StoredActivity(logged)
    /\ nextRequestId' = nextRequestId + 1
    /\ nextActivityId' = nextActivityId + Len(logged)
    /\ UNCHANGED <<authUsers, profiles, comments, attachments,
                   nextCommentId, nextAttachmentId>>

InsertRequest(uid, row) ==
    /\ Executed
    /\ InsertRequestStatement(uid, row)

\* UPDATE requests SET ... ; the trigger on_request_changed runs
UpdateRequestStatement(uid, old, new) ==
    LET logged == log_request_status_change(old, new, uid) IN
    /\ uid \in authUsers
    /\ old \in requests
    /\ new.id = old.id
    /\ RequestsUpdateUsing(uid, old)
    /\ RequestsUpdateCheck(uid, new)
    /\ RequestForeignKeys(new)
    /\ nextActivityId + Len(logged) - 1 <= MaxActivity
    /\ ActivityForeignKeys(logged, requests)
    /\ requests' = (requests \ {old}) \cup {new}
    /\ activity' = activity \cup StoredActivity(logged)
    /\ nextActivityId' = nextActivityId + Len(logged)
    /\ UNCHANGED <<authUsers, profiles, comments, attachments,
                   nextRequestId, nextCommentId, nextAttachmentId>>

UpdateRequest(uid, old, new) ==
    /\ Executed
    /\ UpdateRequestStatement(uid, old, new)

\* DELETE FROM requests; comments, attachments and activity of the request
\* go with it (ON DELETE CASCADE)
DeleteRequestStatement(uid, row) ==
    /\ uid \in authUsers
    /\ row \in requests
    /\ RequestsDeleteUsing(uid, row)
    /\ requests' = requests \ {row}
    /\ comments' = {c \in comments : c.request_id # row.id}
    /\ attachments' = {a \in attachments : a.request_id # row.id}
    /\ activity' = {a \in activity : a.request_id # row.id}
    /\ UNCHANGED <<authUsers, profiles,
                   nextRequestId, nextCommentId, nextAttachmentId, nextActivityId>>

DeleteRequest(uid, row) ==
    /\ Executed
    /\ DeleteRequestStatement(uid, row)

\* INSERT INTO request_comments
InsertComment(uid, row) ==
    /\ Executed
    /\ uid \in authUsers
    /\ nextCommentId <= MaxComments
    /\ row.id = nextCommentId
    /\ RequestById(row.request_id) # {}
    /\ ProfileExists(row.user_id)
    /\ CommentsInsertCheck(uid, row)
    /\ comments' = comments \cup {row}
    /\ nextCommentId' = nextCommentId + 1
    /\ UNCHANGED <<authUsers, profiles, requests, attachments, activity,
                   nextRequestId, nextAttachmentId, nextActivityId>>

\* UPDATE request_comments SET comment_text = ...
UpdateComment(uid, row, text) ==
    LET changed == [row EXCEPT !.comment_text = text] IN
    /\ Executed
    /\ uid \in authUsers
    /\ row \in comments
    /\ CommentsUpdateUsing(uid, row)
    /\ CommentsUpdateCheck(uid, changed)
    /\ comments' = (comments \ {row}) \cup {changed}
    /\ UNCHANGED <<authUsers, profiles, requests, attachments, activity,
                   nextRequestId, nextCommentId, nextAttachmentId, nextActivityId>>

\* DELETE FROM request_comments
DeleteComment(uid, row) ==
    /\ Executed
    /\ uid \in authUsers
    /\ row \in comments
    /\ CommentsDeleteUsing(uid, row)
    /\ comments' = comments \ {row}
    /\ UNCHANGED <<authUsers, profiles, requests, attachments, activity,
                   nextRequestId, nextCommentId, nextAttachmentId, nextActivityId>>

\* INSERT INTO request_attachments; the trigger on_file_uploaded runs
InsertAttachment(uid, row) ==
    LET logged == log_file_upload(row) IN
    /\ Executed
    /\ uid \in authUsers
    /\ nextAttachmentId <= MaxAttachments
    /\ nextActivityId + Len(logged) - 1 <= MaxActivity
    /\ row.id = nextAttachmentId
    /\ RequestById(row.request_id) # {}
    /\ ProfileExists(row.uploaded_by)
    /\ AttachmentsInsertCheck(uid, row)
    /\ ActivityForeignKeys(logged, requests)
    /\ attachments' = attachments \cup {row}
    /\ activity' = activity \cup StoredActivity(logged)
    /\ nextAttachmentId' = nextAttachmentId + 1
    /\ nextActivityId' = nextActivityId + Len(logged)
    /\ UNCHANGED <<authUsers, profiles, requests, comments,
                   nextRequestId, nextCommentId>>

\* as the statement would act if the upload's activity row went with it
DeleteAttachment_CleansLog(uid, row) ==
    /\ Executed
    /\ uid \in authUsers
    /\ row \in attachments
    /\ AttachmentsDeleteUsing(uid, row)
    /\ attachments' = attachments \ {row}
    /\ activity' = {a \in activity : ~(/\ a.activity_type = "file_uploaded"
                                       /\ a.request_id = row.request_id
                                       /\ a.new_value = Some(row.filename))}
    /\ UNCHANGED <<authUsers, profiles, requests, comments,
                   nextRequestId, nextCommentId, nextAttachmentId, nextActivityId>>

\* DELETE FROM request_attachments
DeleteAttachment(uid, row) ==
    /\ Executed
    /\ uid \in authUsers
    /\ row \in attachments
    /\ AttachmentsDeleteUsing(uid, row)
    /\ attachments' = attachments \ {row}
    /\ UNCHANGED <<authUsers, profiles, requests, comments, activity,
                   nextRequestId, nextCommentId, nextAttachmentId, nextActivityId>>

\* INSERT INTO request_activity sent by a client
InsertActivity(uid, values) ==
    /\ Executed
    /\ uid \in authUsers
    /\ nextActivityId <= MaxActivity
    /\ ActivityForeignKeys(<<values>>, requests)
    /\ ActivityInsertCheck(uid, values)
    /\ activity' = activity \cup StoredActivity(<<values>>)
    /\ nextActivityId' = nextActivityId + 1
    /\ UNCHANGED <<authUsers, profiles, requests, comments, attachments,
                   nextRequestId, nextCommentId, nextAttachmentId>>

----------------------------------------------------------------------------
(* The rows the model's principals send *)

RequestRows(id) ==
    [id : {id}, title : Titles, status : StatusInputs, priority : PriorityInputs,
     due_date : Nullable(Dates), created_by : Users, assigned_to : Nullable(Users)]

CommentRows(id) ==
    [id : {id}, request_id : 1..MaxRequests, user_id : Users, comment_text : CommentTexts]

AttachmentRows(id) ==
    [id : {id}, request_id : 1..MaxRequests, uploaded_by : Users, filename : Filenames]

ActivityRows ==
    [request_id : 1..MaxRequests, user_id : Users, activity_type : ActivityTypeInputs,
     old_value : {NULL}, new_value : {NULL}]

Next ==
    \/ \E u \in Users, m \in MetaRoles : SignUp(u, m)
    \/ \E u \in Users : DeleteUser(u)
    \/ \E uid \in Users, id \in Users, role \in UserRole : InsertProfile(uid, id, role)
    \/ \E uid \in Users, id \in Users, role \in UserRole : UpdateProfile(uid, id, role)
    \/ \E uid \in Users : \E row \in RequestRows(nextRequestId) : InsertRequest(uid, row)
    \/ \E uid \in Users : \E old \in requests : \E new \in RequestRows(old.id) :
          UpdateRequest(uid, old, new)
    \/ \E uid \in Users : \E row \in requests : DeleteRequest(uid, row)
    \/ \E uid \in Users : \E row \in CommentRows(nextCommentId) : InsertComment(uid, row)
    \/ \E uid \in Users : \E row \in comments : \E text \in CommentTexts :
          UpdateComment(uid, row, text)
    \/ \E uid \in Users : \E row \in comments : DeleteComment(uid, row)
    \/ \E uid \in Users : \E row \in AttachmentRows(nextAttachmentId) :
          InsertAttachment(uid, row)
    \/ \E uid \in Users : \E row \in attachments : DeleteAttachment(uid, row)
    \/ \E uid \in Users : \E values \in ActivityRows : InsertActivity(uid, values)

Spec == Init /\ [][Next]_vars

----------------------------------------------------------------------------
(* The permission hook against the policies.  The hook is evaluated for a  *)
(* signed-in principal whose profile is the stored one.                    *)

\* C1: for every signed-in principal and every request row (created_by,
\* assigned_to), canEditRequest is true exactly when the USING clause of the
\* UPDATE policy on requests admits the principal for the row.
C1_EditMirrorsUpdatePolicy ==
    \A u \in authUsers : \A cb \in Users : \A at \in Nullable(Users) :
        canEditRequest(Some(u), cb, at)
            = RequestsUpdateUsing(u, [created_by |-> cb, assigned_to |-> at])

\* a team member is the assignee of a request somebody else created and may
\* edit it, and might not without the assignment
C1_Witness ==
    \E r \in requests : \E u \in authUsers :
        /\ profiles[u] = "team_member" /\ r.assigned_to = Some(u) /\ r.created_by # u
        /\ canEditRequest(Some(u), r.created_by, r.assigned_to)
        /\ ~canEditRequest(Some(u), r.created_by, NULL)

\* C2: for every signed-in principal and every request, canCommentOnRequest
\* is true exactly when the INSERT policy on request_comments admits a
\* comment of the principal (user_id = the principal) on the request.
C2_CommentMirrorsInsertPolicy ==
    \A u \in authUsers : \A r \in requests :
        canCommentOnRequest(Some(u), r.created_by)
            = CommentsInsertCheck(u, [request_id |-> r.id, user_id |-> u])

\* C3: for every signed-in principal and every request, canDeleteRequest is
\* true exactly when the DELETE policy on requests admits the principal for
\* the row, that is when the principal is admin or the creator.
C3_DeleteMirrorsDeletePolicy ==
    \A u \in authUsers : \A cb \in Users :
        /\ canDeleteRequest(Some(u), cb) = RequestsDeleteUsing(u, [created_by |-> cb])
        /\ canDeleteRequest(Some(u), cb) = (profiles[u] = "admin" \/ cb = u)

\* a request was deleted while no profile was admin (its creator deleted it),
\* and a team member who could not have deleted it is there
C3_Witness ==
    /\ requests = {} /\ nextRequestId > 1
    /\ \A u \in Users : profiles[u] # "admin"
    /\ \E u \in authUsers, v \in authUsers :
          /\ profiles[u] = "team_member" /\ ProfileExists(v) /\ u # v
          /\ ~canDeleteRequest(Some(u), v)

\* C4: for every signed-in principal and every request, canViewRequest is
\* true exactly when the SELECT policy on requests admits the principal for
\* the row, and canViewAllRequests is true exactly when the policy admits the
\* principal for every row whatever its creator.
C4_ViewMirrorsSelectPolicy ==
    \A u \in authUsers :
        /\ \A cb \in Users :
              canViewRequest(Some(u), cb) = RequestsSelectUsing(u, [created_by |-> cb])
        /\ canViewAllRequests(Some(u))
              = (\A cb \in Users : RequestsSelectUsing(u, [created_by |-> cb]))

\* a team member sees the request of a user, who would not see a request of
\* the team member
C4_Witness ==
    \E r \in requests : \E u \in authUsers :
        /\ profiles[u] = "team_member" /\ r.created_by # u
        /\ canViewRequest(Some(u), r.created_by) /\ canViewAllRequests(Some(u))
        /\ profiles[r.created_by] \in {"guest", "user"}
        /\ ~canViewRequest(Some(r.created_by), u)
        /\ ~canViewAllRequests(Some(r.created_by))

\* C5: canCreateRequest is true exactly for the roles admin, team_member and
\* user (false for guest and without a profile), which is exactly when the
\* INSERT policy on requests admits a row whose created_by is the principal.
C5_CreateMirrorsInsertPolicy ==
    \A u \in authUsers :
        /\ canCreateRequest(Some(u)) = (profiles[u] \in {"admin", "team_member", "user"})
        /\ canCreateRequest(Some(u)) = RequestsInsertCheck(u, [created_by |-> u])

\* a request was inserted by a principal who may create one, and a guest or
\* a principal without profile is signed in who may not
C5_Witness ==
    /\ \E r \in requests : canCreateRequest(Some(r.created_by))
    /\ \E u \in authUsers :
          profiles[u] \in {"guest", NoProfile} /\ ~canCreateRequest(Some(u))

----------------------------------------------------------------------------
(* The activity log *)

RequestExists(reqs, rid) == \E r \in reqs : r.id = rid

\* C6 as stated: after any permitted operation, every request_activity row
\* that was written still exists with all its fields unchanged.
C6_ActivityAppendOnly ==
    [][\A a \in activity : a \in activity']_vars

\* C6 as amended: a request_activity row keeps all its fields for as long as
\* its request and the profile of its actor exist, and it is removed only
\* together with one of them.
C6_ActivityKeptWhileRequestExists ==
    [][\A a \in activity :
          /\ (RequestExists(requests', a.request_id) /\ profiles'[a.user_id] # NoProfile)
                => a \in activity'
          /\ \A b \in activity' : b.id = a.id => b = a]_vars

\* an attachment was deleted and the row that logged its upload is still there
C6_Witness ==
    /\ attachments = {} /\ nextAttachmentId > 1
    /\ \E a \in activity :
          a.activity_type = "file_uploaded" /\ RequestExists(requests, a.request_id)

\* C7: no principal adds a row to request_activity by a direct insert: every
\* step that adds activity rows is an insert of a request, an update of a
\* request or an insert of an attachment, whose trigger wrote them.
C7_ActivityOnlyFromTriggers ==
    [][(activity' \ activity # {}) =>
          (requests' # requests \/ attachments' # attachments)]_vars

ChangedColumns(old, new) ==
    {c \in {"status", "priority", "assigned_to", "due_date"} : old[c] # new[c]}

ActivityTypeOf(c) ==
    CASE c = "status" -> "status_changed"
      [] c = "priority" -> "priority_changed"
      [] c = "assigned_to" -> "assignment_changed"
      [] c = "due_date" -> "due_date_changed"

ColumnText(c, row) ==
    CASE c = "status" -> Some(row.status)
      [] c = "priority" -> Some(row.priority)
      [] c = "assigned_to" ->
            (IF row.assigned_to = NULL THEN NULL ELSE Some(UuidText(row.assigned_to[1])))
      [] c = "due_date" ->
            (IF row.due_date = NULL THEN NULL ELSE Some(DateText(row.due_date[1])))

\* C8: every update of a request appends exactly one activity row for each of
\* status, priority, assigned_to and due_date whose value changed, with the
\* old value, the new value and the updating principal as actor, and appends
\* no other row.
C8_UpdateLogsEachChange ==
    [][\A uid \in Users : \A old \in requests : \A new \in requests' :
          UpdateRequest(uid, old, new) =>
              LET added == activity' \ activity IN
              /\ activity \subseteq activity'
              /\ Cardinality(added) = Cardinality(ChangedColumns(old, new))
              /\ \A c \in ChangedColumns(old, new) :
                    \E a \in added :
                        /\ a.activity_type = ActivityTypeOf(c)
                        /\ a.request_id = old.id
                        /\ a.user_id = uid
                        /\ a.old_value = ColumnText(c, old)
                        /\ a.new_value = ColumnText(c, new)]_vars

\* one update changed the assignee from nobody to a user and the due date,
\* and was logged by a principal who is not the creator
C8_Witness ==
    \E a \in activity, b \in activity : \E r \in requests :
        /\ a.activity_type = "assignment_changed" /\ a.old_value = NULL
        /\ b.activity_type = "due_date_changed" /\ b.id = a.id + 1
        /\ a.request_id = r.id /\ b.request_id = r.id
        /\ a.user_id = b.user_id /\ a.user_id # r.created_by

RequestCreatedRows(act, rid) ==
    {a \in act : a.request_id = rid /\ a.activity_type = "request_created"}

\* C9: the insert of a request adds exactly one 'request_created' row, whose
\* actor is the request's created_by and whose new_value is its title, and no
\* later step adds a second 'request_created' row for the request.
C9_OneRequestCreatedRow ==
    [][\A r \in requests' :
          IF RequestExists(requests, r.id)
            THEN RequestCreatedRows(activity', r.id) = RequestCreatedRows(activity, r.id)
            ELSE \E a \in activity' :
                    /\ RequestCreatedRows(activity', r.id) = {a}
                    /\ a.user_id = r.created_by
                    /\ a.new_value = Some(r.title)]_vars

\* C10: an update of a profiles row that changes its role is admitted only
\* when the updating principal's own profile has role admin; a non-admin's
\* update of the own profile leaves the role as it is.
C10_RoleChangeNeedsAdmin ==
    [][\A uid \in Users, id \in Users, role \in UserRole :
          (UpdateProfile(uid, id, role) /\ profiles'[id] # profiles[id])
              => profiles[uid] = "admin"]_vars

\* a principal inserted a request (the trigger logged it) and is a guest now:
\* an update changed the role
C10_Witness ==
    \E r \in requests : \E a \in activity :
        /\ profiles[r.created_by] = "guest"
        /\ a.request_id = r.id /\ a.activity_type = "request_created"
        /\ a.user_id = r.created_by /\ a.new_value = Some(r.title)

----------------------------------------------------------------------------
(* Registration and the profiles table *)

\* C11: the profile that handle_new_user creates for a newly registered auth
\* user has role 'user' whenever the signup metadata carries no role.
C11_DefaultRoleIsUser ==
    [][\A u \in Users : SignUp(u, NULL) => profiles'[u] = "user"]_vars

\* the first statement was a signup and it left a profile with role 'user'
C11_Witness ==
    /\ statements = 1
    /\ \E u \in authUsers : profiles[u] = "user"

\* C12: after all migrations have been applied in order, a principal can read
\* a profiles row only if it is the principal's own row or the principal's own
\* profile has role admin; no policy lets the anon role read or insert
\* profiles.
C12_ProfilesReadOwnOrAdmin ==
    /\ \A principal \in Principals : \A row \in ProfileRows :
          Admits(PoliciesAfterAllMigrations, principal, "profiles", "SELECT", row, row)
              => /\ principal # NULL
                 /\ principal[1] = row.id \/ profiles[principal[1]] = "admin"
    /\ \A p \in PoliciesAfterAllMigrations :
          p.table = "profiles" /\ p.cmd \in {"SELECT", "INSERT"} => p.role # "anon"

\* two profiles exist, one of a principal who is not admin: that principal
\* reads the own row and is refused the other, and anon is refused both
C12_Witness ==
    \E a \in ProfileRows, b \in ProfileRows :
        /\ a.id # b.id /\ a.role # "admin"
        /\ Admits(PoliciesAfterAllMigrations, Some(a.id), "profiles", "SELECT", a, a)
        /\ ~Admits(PoliciesAfterAllMigrations, Some(a.id), "profiles", "SELECT", b, b)
        /\ ~Admits(PoliciesAfterAllMigrations, NULL, "profiles", "SELECT", a, a)

----------------------------------------------------------------------------
(* Access to the request tables *)

ReadsParentRequest(principal, row) ==
    \E r \in RequestById(row.request_id) :
        Admits(PoliciesAfterAllMigrations, principal, "requests", "SELECT", r, r)

\* C13: a principal can read a request_comments, request_attachments or
\* request_activity row exactly when the SELECT policy on requests admits
\* that principal for the row's parent request.
C13_ChildReadFollowsRequest ==
    \A principal \in Principals :
        /\ \A c \in comments :
              Admits(PoliciesAfterAllMigrations, principal, "request_comments", "SELECT", c, c)
                  <=> ReadsParentRequest(principal, c)
        /\ \A a \in attachments :
              Admits(PoliciesAfterAllMigrations, principal, "request_attachments", "SELECT", a, a)
                  <=> ReadsParentRequest(principal, a)
        /\ \A a \in activity :
              Admits(PoliciesAfterAllMigrations, principal, "request_activity", "SELECT", a, a)
                  <=> ReadsParentRequest(principal, a)

\* a request has a comment, an attachment and activity; one principal reads
\* all three and another is refused all three
C13_Witness ==
    \E c \in comments, a \in attachments, l \in activity : \E u \in Users, v \in Users :
        /\ c.request_id = a.request_id /\ a.request_id = l.request_id
        /\ CommentsSelectUsing(u, c) /\ AttachmentsSelectUsing(u, a)
        /\ ActivitySelectUsing(u, l)
        /\ ~CommentsSelectUsing(v, c) /\ ~AttachmentsSelectUsing(v, a)
        /\ ~ActivitySelectUsing(v, l)

\* C14: for a principal whose role is guest, no insert, update or delete on
\* requests, request_comments or request_attachments is admitted by the
\* policies, for any row and in any reachable state.
C14_GuestsReadOnly ==
    \A uid \in Users :
        profiles[uid] = "guest" =>
            LET Can(table, cmd, old, new) ==
                    Admits(PoliciesAfterAllMigrations, Some(uid), table, cmd, old, new)
            IN
            /\ \A new \in RequestRows(nextRequestId) :
                  ~Can("requests", "INSERT", new, new)
            /\ \A old \in requests :
                  /\ \A new \in RequestRows(old.id) : ~Can("requests", "UPDATE", old, new)
                  /\ ~Can("requests", "DELETE", old, old)
            /\ \A new \in CommentRows(nextCommentId) :
                  ~Can("request_comments", "INSERT", new, new)
            /\ \A old \in comments :
                  /\ \A text \in CommentTexts :
                        ~Can("request_comments", "UPDATE", old,
                             [old EXCEPT !.comment_text = text])
                  /\ ~Can("request_comments", "DELETE", old, old)
            /\ \A new \in AttachmentRows(nextAttachmentId) :
                  ~Can("request_attachments", "INSERT", new, new)
            /\ \A old \in attachments :
                  /\ ~Can("request_attachments", "UPDATE", old, old)
                  /\ ~Can("request_attachments", "DELETE", old, old)

\* C15: a principal can insert a request_attachments row (with uploaded_by
\* equal to the principal) for a request exactly when the UPDATE policy on
\* requests admits that principal for that request.
C15_AttachmentInsertFollowsUpdate ==
    \A uid \in Users : \A r \in requests :
        (\E new \in AttachmentRows(nextAttachmentId) :
            /\ new.request_id = r.id /\ new.uploaded_by = uid
            /\ Admits(PoliciesAfterAllMigrations, Some(uid), "request_attachments",
                      "INSERT", new, new))
        <=> (\E p \in Applicable(PoliciesAfterAllMigrations, Some(uid), "requests", "UPDATE") :
                PolicyUsing(p, Some(uid), r))

----------------------------------------------------------------------------
(* The optimization migration *)

\* the statements a principal can try in the current state, as
\* <<table, command, stored row, new row>>
AccessCases ==
    LET NewProfiles == [id : Users, role : UserRole] IN
    {<<"profiles", "SELECT", old, old>> : old \in ProfileRows}
    \cup {<<"profiles", "INSERT", new, new>> : new \in NewProfiles}
    \cup {<<"profiles", "UPDATE", c[1], c[2]>> : c \in ProfileRows \X NewProfiles}
    \cup {<<"profiles", "DELETE", old, old>> : old \in ProfileRows}
    \cup {<<"requests", cmd, old, old>> : cmd \in {"SELECT", "DELETE"}, old \in requests}
    \cup {<<"requests", "INSERT", new, new>> : new \in RequestRows(nextRequestId)}
    \cup UNION {{<<"requests", "UPDATE", old, new>> : new \in RequestRows(old.id)} :
                    old \in requests}
    \cup {<<"request_comments", cmd, old, old>> : cmd \in {"SELECT", "DELETE"}, old \in comments}
    \cup {<<"request_comments", "INSERT", new, new>> : new \in CommentRows(nextCommentId)}
    \cup UNION {{<<"request_comments", "UPDATE", old, new>> : new \in CommentRows(old.id)} :
                    old \in comments}
    \cup {<<"request_attachments", cmd, old, old>> :
                cmd \in {"SELECT", "UPDATE", "DELETE"}, old \in attachments}
    \cup {<<"request_attachments", "INSERT", new, new>> :
                new \in AttachmentRows(nextAttachmentId)}
    \cup {<<"request_activity", cmd, old, old>> :
                cmd \in {"SELECT", "UPDATE", "DELETE"}, old \in activity}
    \cup {<<"request_activity", "INSERT", new, new>> : new \in ActivityRows}

SameAccess(principal) ==
    \A c \in AccessCases :
        Admits(PoliciesAfterAllMigrations, principal, c[1], c[2], c[3], c[4])
            <=> Admits(PoliciesBeforeOptimization, principal, c[1], c[2], c[3], c[4])

\* C16: for every principal (anon or authenticated, any role), table,
\* operation and row, the consolidated policies of the optimization migration
\* admit the operation exactly when the policies in force before it admitted
\* it.
C16_OptimizationKeepsAccess ==
    \A principal \in Principals : SameAccess(principal)

\* C17: for every row of requests, request_comments and request_attachments,
\* whoever created it, a principal with role admin is admitted to read it,
\* update it and delete it.
C17_AdminsFullAccess ==
    \A uid \in Users :
        profiles[uid] = "admin" =>
            LET Can(table, cmd, row) ==
                    Admits(PoliciesAfterAllMigrations, Some(uid), table, cmd, row, row)
            IN
            /\ \A r \in requests : \A cmd \in {"SELECT", "UPDATE", "DELETE"} :
                  Can("requests", cmd, r)
            /\ \A c \in comments : \A cmd \in {"SELECT", "UPDATE", "DELETE"} :
                  Can("request_comments", cmd, c)
            /\ \A a \in attachments : \A cmd \in {"SELECT", "UPDATE", "DELETE"} :
                  Can("request_attachments", cmd, a)

----------------------------------------------------------------------------
(* Foreign keys *)

\* C18: after any sequence of inserts and deletes of profiles, requests,
\* comments, attachments and activity, every comment, attachment and activity
\* row references an existing request and an existing profile, every
\* request's created_by references an existing profile, and every request's
\* assigned_to is null or references an existing profile.
C18_ReferentialIntegrity ==
    /\ \A c \in comments : RequestExists(requests, c.request_id) /\ ProfileExists(c.user_id)
    /\ \A a \in attachments :
          RequestExists(requests, a.request_id) /\ ProfileExists(a.uploaded_by)
    /\ \A a \in activity : RequestExists(requests, a.request_id) /\ ProfileExists(a.user_id)
    /\ \A r \in requests :
          /\ ProfileExists(r.created_by)
          /\ r.assigned_to # NULL => ProfileExists(r.assigned_to[1])

\* a request is left without the 'request_created' row of its log: the
\* principal who inserted it was deleted after the request went to another
\* creator, and the cascade took the rows of the deleted profile only
C18_Witness ==
    \E r \in requests :
        /\ RequestCreatedRows(activity, r.id) = {}
        /\ \E u \in Users : u \notin authUsers /\ ~ProfileExists(u)

----------------------------------------------------------------------------
(* Escalation to admin *)

\* C19: no sequence of signups, profile inserts and profile updates performed
\* only by principals whose role is not admin results in a profiles row with
\* role admin: a step that leaves a profiles row with role admin that did not
\* have it is an insert or update by a principal whose stored role is admin.
C19_NoAdminWithoutAdmin ==
    [][\A id \in Users :
          (profiles'[id] = "admin" /\ profiles[id] # "admin") =>
              \E uid \in Users, role \in UserRole :
                  /\ profiles[uid] = "admin"
                  /\ UpdateProfile(uid, id, role) \/ InsertProfile(uid, id, role)]_vars

----------------------------------------------------------------------------
(* The log of status changes *)

StatusChangedRows(act, rid) ==
    {a \in act : a.request_id = rid /\ a.activity_type = "status_changed"}

\* rows in insertion order: ids are handed out in increasing order
FirstRow(rows) == CHOOSE a \in rows : \A b \in rows : a.id <= b.id
LastRow(rows) == CHOOSE a \in rows : \A b \in rows : b.id <= a.id
Precedes(rows, a, b) ==
    a.id < b.id /\ ~\E c \in rows : a.id < c.id /\ c.id < b.id

\* C20: for each request, after any sequence of request updates, its
\* 'status_changed' activity rows taken in insertion order form a chain: each
\* row's old_value equals the preceding row's new_value, the first row's
\* old_value is the status the request was created with (the status it had
\* while no such row existed), and the last row's new_value equals the
\* request's current status.
C20_StatusChain ==
    [][\A new \in requests' :
          LET rows == StatusChangedRows(activity', new.id) IN
          rows # {} =>
              /\ \A a \in rows, b \in rows :
                    Precedes(rows, a, b) => b.old_value = a.new_value
              /\ LastRow(rows).new_value = Some(EnumText(new.status))
              /\ \A old \in requests :
                    (old.id = new.id /\ StatusChangedRows(activity, old.id) = {})
                        => FirstRow(rows).old_value = Some(EnumText(old.status))]_vars

----------------------------------------------------------------------------
(* Errors of the signup trigger *)

\* C21: handle_new_user never makes the creation of the auth user fail: a
\* signup is possible for every new user with any metadata; if inserting the
\* profile raises an error the user is created all the same and is left
\* without a profile; and applied to an id that has a profile already the
\* function leaves the profiles as they are.
C21_SignupNeverFails ==
    [][/\ \A u \in Users \ authUsers : \A m \in MetaRoles :
             statements < MaxStatements => ENABLED SignUp(u, m)
       /\ \A u \in Users : \A m \in MetaRoles :
             SignUp(u, m) =>
                 /\ u \in authUsers'
                 /\ (m # NULL /\ m[1] \notin UserRole)
                        => profiles' = profiles /\ profiles'[u] = NoProfile
       /\ \A id \in Users : \A m \in MetaRoles :
             ProfileExists(id) => handle_new_user(id, m) = profiles]_vars

\* the first statement was a signup whose profile insert raised an error: the
\* user exists and has no profile
C21_Witness ==
    /\ statements = 1
    /\ \E u \in authUsers : ~ProfileExists(u)

----------------------------------------------------------------------------
(* The pages.  The auth context hands every component the current user,    *)
(* the profile it loaded for that user, and a loading flag; a change of    *)
(* the context re-renders the mounted components and runs their effects.   *)
(* A component that ProtectedRoute stops rendering is unmounted: what it    *)
(* awaits still resumes, its state setters do nothing, and the next time   *)
(* it is rendered it starts from its initial state.                        *)

MaxTitleLen == 2
MaxPushes == 2
MaxToasts == 2
MaxCalls == 2
MaxFetches == 1

\* the users who sign in on this browser: the first one
SessionUsers == {1}

\* what useAuth() can return: a profile is the stored row of the user
AuthStates ==
    {a \in [user : Nullable(SessionUsers), profile : Nullable(UserRole),
            loading : BOOLEAN] :
        a.profile # NULL =>
            /\ a.user # NULL
            /\ profiles[a.user[1]] = a.profile[1]}

Push(to, by) == [to |-> to, by |-> by]
Toast(kind, text) == [kind |-> kind, text |-> text]

\* ProtectedRoute: what it renders from the context a
RouteOutput(a, requireAuth, showTimeout) ==
    IF a.loading
      THEN (IF showTimeout THEN "timeout" ELSE "skeleton")
    ELSE IF requireAuth /\ a.user = NULL THEN "null"
    ELSE "children"

ProtectedRouteOutput ==
    RouteOutput(auth, protectedRoute.requireAuth, protectedRoute.showTimeout)

\* as the first effect would run if it did not wait for the context to load
RedirectEffect_IgnoresLoading(a, requireAuth) ==
    IF requireAuth /\ a.user = NULL
      THEN <<Push("/login", "effect")>>
      ELSE <<>>

\* ProtectedRoute: the pushes of its first effect, run with the values of
\* the render a
RedirectEffect(a, requireAuth) ==
    IF ~a.loading /\ requireAuth /\ a.user = NULL
      THEN <<Push("/login", "effect")>>
      ELSE <<>>

\* the state NewRequestContent is mounted with; what an earlier instance
\* awaits stays in flight
NewRequestMounted(awaiting) ==
    [mounted |-> TRUE, title |-> <<>>, priority |-> "normal", dueDate |-> NULL,
     loading |-> FALSE, awaiting |-> awaiting]

NewRequestUnmounted(s) ==
    [s EXCEPT !.mounted = FALSE,
              !.awaiting = IF @ = NULL THEN NULL ELSE Some([@[1] EXCEPT !.live = FALSE])]

\* the state RequestDetailContent is mounted with: its effect has called
\* fetchRequestDetails.  Of the page's state the request and the loading flag
\* are kept; the comments, the activity and the profiles it lists are read by
\* no handler
RequestDetailMounted(calls, fetches) ==
    [mounted |-> TRUE, request |-> NULL, loading |-> TRUE, calls |-> calls,
     fetches |-> Append(fetches, [stage |-> "details", live |-> TRUE])]

RequestDetailUnmounted(s) ==
    [s EXCEPT !.mounted = FALSE,
              !.calls = {[c EXCEPT !.live = FALSE] : c \in @},
              !.fetches = [i \in 1..Len(@) |-> [@[i] EXCEPT !.live = FALSE]]]

\* the context changes to a; the mounted ProtectedRoute renders again, its
\* first effect runs when user or loading changed and its second effect
\* (clearTimeout, setTimeout) when loading changed; its children are mounted
\* or unmounted with what it renders
AuthStateChange(a) ==
    LET pushes == IF protectedRoute.mounted
                     /\ (a.user # auth.user \/ a.loading # auth.loading)
                    THEN RedirectEffect(a, protectedRoute.requireAuth)
                    ELSE <<>>
        shown == protectedRoute.mounted /\ ProtectedRouteOutput = "children"
        shownNext == /\ protectedRoute.mounted
                     /\ RouteOutput(a, protectedRoute.requireAuth,
                                    protectedRoute.showTimeout) = "children"
    IN
    /\ a \in AuthStates
    /\ a # auth
    /\ Len(router) + Len(pushes) <= MaxPushes
    /\ auth' = a
    /\ router' = router \o pushes
    /\ protectedRoute' =
          IF protectedRoute.mounted /\ a.loading # auth.loading
            THEN [protectedRoute EXCEPT !.timer = TRUE]
            ELSE protectedRoute
    /\ newRequest' =
          IF protectedRoute.page # "new-request" \/ shown = shownNext THEN newRequest
          ELSE IF shownNext THEN NewRequestMounted(newRequest.awaiting)
          ELSE NewRequestUnmounted(newRequest)
    /\ requestDetail' =
          IF protectedRoute.page # "request-detail" \/ shown = shownNext THEN requestDetail
          ELSE IF shownNext
            THEN RequestDetailMounted(requestDetail.calls, requestDetail.fetches)
          ELSE RequestDetailUnmounted(requestDetail)
    /\ Len(requestDetail'.fetches) <= MaxFetches
    /\ UNCHANGED <<dbVars, toasts>>

\* the callback of setTimeout(..., 8000): it was set by the render with the
\* current value of loading
TimeoutFires ==
    /\ protectedRoute.mounted
    /\ protectedRoute.timer
    /\ protectedRoute' = [protectedRoute EXCEPT !.timer = FALSE,
                                                !.showTimeout = @ \/ auth.loading]
    /\ UNCHANGED <<dbVars, auth, router, toasts, newRequest, requestDetail>>

\* the button "Go to Login" of the timeout card
GoToLogin ==
    /\ protectedRoute.mounted
    /\ ProtectedRouteOutput = "timeout"
    /\ Len(router) < MaxPushes
    /\ router' = Append(router, Push("/login", "button"))
    /\ UNCHANGED <<dbVars, auth, protectedRoute, toasts, newRequest, requestDetail>>

\* the profiles a page finds: the first user with any role or none, the
\* others guests
SeedProfiles ==
    {f \in [Users -> UserRole \cup {NoProfile}] : \A u \in Users \ {1} : f[u] = "guest"}

\* usePermissions() on the context's user and profile
PermissionsRole == auth.profile
CanCreateRequestHere ==
    \/ PermissionsRole = Some("admin")
    \/ PermissionsRole = Some("team_member")
    \/ PermissionsRole = Some("user")

CanEditRequestHere(createdBy, assignedTo) ==
    IF auth.user = NULL THEN FALSE
    ELSE IF PermissionsRole = Some("admin") THEN TRUE
    ELSE IF PermissionsRole = Some("team_member") /\ assignedTo = auth.user THEN TRUE
    ELSE createdBy = auth.user[1]

----------------------------------------------------------------------------
(* The page that creates a request: NewRequestContent inside ProtectedRoute *)

Chars == {" ", "a"}
TitleInputs == UNION {[1..n -> Chars] : n \in 0..MaxTitleLen}

\* String.prototype.trim on a text of these characters
RECURSIVE TrimStart(_)
TrimStart(t) == IF t # <<>> /\ Head(t) = " " THEN TrimStart(Tail(t)) ELSE t
RECURSIVE TrimEnd(_)
TrimEnd(t) ==
    IF t # <<>> /\ t[Len(t)] = " " THEN TrimEnd(SubSeq(t, 1, Len(t) - 1)) ELSE t
Trim(t) == TrimEnd(TrimStart(t))

\* what the page shows
NewRequestView ==
    IF ProtectedRouteOutput # "children" THEN ProtectedRouteOutput
    ELSE IF ~CanCreateRequestHere THEN "access_denied"
    ELSE "form"

FormEnabled == NewRequestView = "form" /\ newRequest.mounted /\ ~newRequest.loading

setTitle(t) ==
    /\ FormEnabled
    /\ t # newRequest.title
    /\ newRequest' = [newRequest EXCEPT !.title = t]
    /\ UNCHANGED <<dbVars, auth, protectedRoute, router, toasts, requestDetail>>

setPriority(p) ==
    /\ FormEnabled
    /\ p # newRequest.priority
    /\ newRequest' = [newRequest EXCEPT !.priority = p]
    /\ UNCHANGED <<dbVars, auth, protectedRoute, router, toasts, requestDetail>>

setDueDate(d) ==
    /\ FormEnabled
    /\ d # newRequest.dueDate
    /\ newRequest' = [newRequest EXCEPT !.dueDate = d]
    /\ UNCHANGED <<dbVars, auth, protectedRoute, router, toasts, requestDetail>>

\* the row of supabase.from('requests').insert({...})
InsertPayload ==
    [id |-> nextRequestId, title |-> Trim(newRequest.title), status |-> "new",
     priority |-> newRequest.priority, due_date |-> newRequest.dueDate,
     created_by |-> auth.user[1], assigned_to |-> NULL]

\* the backend refuses the row: a policy or a foreign key
InsertRefused(uid, row) ==
    ~(uid \in authUsers /\ RequestForeignKeys(row) /\ RequestsInsertCheck(uid, row))

Awaited(row, error) == Some([row |-> row, error |-> error, live |-> TRUE])

\* as the handler would run if it tested the title without trimming it
handleSubmit_UntrimmedTest(fails) ==
    /\ FormEnabled
    /\ newRequest.awaiting = NULL
    /\ IF auth.user = NULL
         THEN /\ Len(toasts) < MaxToasts
              /\ toasts' = Append(toasts, Toast("error", "You must be logged in to create a request"))
              /\ UNCHANGED <<dbVars, newRequest>>
       ELSE IF newRequest.title = <<>>
         THEN /\ Len(toasts) < MaxToasts
              /\ toasts' = Append(toasts, Toast("error", "Please enter a title"))
              /\ UNCHANGED <<dbVars, newRequest>>
       ELSE IF fails \/ InsertRefused(auth.user[1], InsertPayload)
         THEN /\ newRequest' = [newRequest EXCEPT !.loading = TRUE,
                                   !.awaiting = Awaited(InsertPayload, TRUE)]
              /\ UNCHANGED <<dbVars, toasts>>
       ELSE /\ InsertRequestStatement(auth.user[1], InsertPayload)
            /\ newRequest' = [newRequest EXCEPT !.loading = TRUE,
                                 !.awaiting = Awaited(InsertPayload, FALSE)]
            /\ UNCHANGED <<statements, toasts>>
    /\ UNCHANGED <<auth, protectedRoute, router, requestDetail>>

\* handleSubmit up to the await: the guards, setLoading(true) and the insert,
\* which the backend executes or refuses; fails is an error of the transport
handleSubmit(fails) ==
    /\ FormEnabled
    /\ newRequest.awaiting = NULL
    /\ IF auth.user = NULL
         THEN /\ Len(toasts) < MaxToasts
              /\ toasts' = Append(toasts, Toast("error", "You must be logged in to create a request"))
              /\ UNCHANGED <<dbVars, newRequest>>
       ELSE IF Trim(newRequest.title) = <<>>
         THEN /\ Len(toasts) < MaxToasts
              /\ toasts' = Append(toasts, Toast("error", "Please enter a title"))
              /\ UNCHANGED <<dbVars, newRequest>>
       ELSE IF fails \/ InsertRefused(auth.user[1], InsertPayload)
         THEN /\ newRequest' = [newRequest EXCEPT !.loading = TRUE,
                                   !.awaiting = Awaited(InsertPayload, TRUE)]
              /\ UNCHANGED <<dbVars, toasts>>
       ELSE /\ InsertRequestStatement(auth.user[1], InsertPayload)
            /\ newRequest' = [newRequest EXCEPT !.loading = TRUE,
                                 !.awaiting = Awaited(InsertPayload, FALSE)]
            /\ UNCHANGED <<statements, toasts>>
    /\ UNCHANGED <<auth, protectedRoute, router, requestDetail>>

\* handleSubmit after the await: the toast, the push to the new request, and
\* setLoading(false) in the finally block
handleSubmitResumes ==
    /\ newRequest.awaiting # NULL
    /\ Len(toasts) < MaxToasts
    /\ IF newRequest.awaiting[1].error
         THEN /\ toasts' = Append(toasts, Toast("error", "Failed to create request"))
              /\ UNCHANGED router
         ELSE /\ Len(router) < MaxPushes
              /\ toasts' = Append(toasts, Toast("success", "Request created successfully!"))
              /\ router' = Append(router,
                                  Push(<<"/reque/request", newRequest.awaiting[1].row.id>>,
                                       "handleSubmit"))
    /\ newRequest' =
          IF newRequest.awaiting[1].live
            THEN [newRequest EXCEPT !.loading = FALSE, !.awaiting = NULL]
            ELSE [newRequest EXCEPT !.awaiting = NULL]
    /\ UNCHANGED <<dbVars, auth, protectedRoute, requestDetail>>

\* a page is open on a database with users and no request yet
SeededUsers ==
    /\ authUsers = Users
    /\ profiles \in SeedProfiles
    /\ comments = {}
    /\ attachments = {}
    /\ nextCommentId = 1
    /\ nextAttachmentId = 1
    /\ statements = 0

NoRequests ==
    /\ requests = {}
    /\ activity = {}
    /\ nextRequestId = 1
    /\ nextActivityId = 1

RequestDetailClosed ==
    [mounted |-> FALSE, request |-> NULL, loading |-> TRUE, calls |-> {},
     fetches |-> <<>>]

NewRequestClosed == [NewRequestMounted(NULL) EXCEPT !.mounted = FALSE]

\* the new-request page has just been opened
NewRequestInit ==
    /\ SeededUsers
    /\ NoRequests
    /\ auth \in AuthStates
    /\ protectedRoute = [mounted |-> TRUE, page |-> "new-request", requireAuth |-> TRUE,
                         showTimeout |-> FALSE, timer |-> TRUE]
    /\ router = RedirectEffect(auth, TRUE)
    /\ toasts = <<>>
    /\ newRequest = IF RouteOutput(auth, TRUE, FALSE) = "children"
                      THEN NewRequestMounted(NULL)
                      ELSE NewRequestClosed
    /\ requestDetail = RequestDetailClosed

NewRequestNext ==
    \/ \E a \in AuthStates : AuthStateChange(a)
    \/ \E t \in TitleInputs : setTitle(t)
    \/ \E p \in PriorityInputs : setPriority(p)
    \/ \E d \in Nullable(Dates) : setDueDate(d)
    \/ \E fails \in BOOLEAN : handleSubmit(fails)
    \/ handleSubmitResumes

NewRequestSpec == NewRequestInit /\ [][NewRequestNext]_vars

Spaces(n) == [i \in 1..n |-> " "]

\* C22: on the new-request page an insert is sent only when a user is signed
\* in and the trimmed title is non-empty; every request it inserts has status
\* 'new', created_by equal to the signed-in user's id and the title without
\* its leading and trailing blanks; and a principal for whom canCreateRequest
\* is false is shown Access Denied where the page would show the form, and no
\* insert is sent for that principal.
C22_NewRequestInserts ==
    [][/\ (newRequest.awaiting = NULL /\ newRequest'.awaiting # NULL) =>
             LET row == newRequest'.awaiting[1].row IN
             /\ auth.user # NULL
             /\ CanCreateRequestHere
             /\ row.title # <<>>
             /\ Head(row.title) # " " /\ row.title[Len(row.title)] # " "
             /\ \E i \in 0..MaxTitleLen, j \in 0..MaxTitleLen :
                   newRequest.title = Spaces(i) \o row.title \o Spaces(j)
             /\ row.status = "new"
             /\ row.created_by = auth.user[1]
             /\ requests' \subseteq requests \cup {row}
       /\ ~(newRequest.awaiting = NULL /\ newRequest'.awaiting # NULL)
             => requests' = requests
       /\ (ProtectedRouteOutput = "children" /\ ~CanCreateRequestHere)
             => NewRequestView = "access_denied" /\ ~ENABLED handleSubmit(FALSE)]_vars

\* a title typed with a leading blank was sent without it and the request is
\* stored
C22_Witness ==
    /\ newRequest.awaiting # NULL
    /\ newRequest.title # newRequest.awaiting[1].row.title
    /\ newRequest.awaiting[1].row \in requests

----------------------------------------------------------------------------
(* The page of one request: RequestDetailContent inside ProtectedRoute     *)

\* params.id: the page is open on the first request
RequestId == 1

SeqRemove(s, i) == SubSeq(s, 1, i - 1) \o SubSeq(s, i + 1, Len(s))

\* what the page shows
RequestDetailView ==
    IF ProtectedRouteOutput # "children" THEN ProtectedRouteOutput
    ELSE IF requestDetail.loading THEN "skeleton"
    ELSE IF requestDetail.request = NULL THEN "null"
    ELSE "content"

\* the Select of the status and the Select of the priority are rendered
ControlsShown ==
    /\ requestDetail.mounted
    /\ RequestDetailView = "content"
    /\ CanEditRequestHere(requestDetail.request[1].created_by,
                          requestDetail.request[1].assigned_to)

\* the row the select of the request returns to the session; fails is an
\* error of the transport
FetchedRequest(fails) ==
    IF fails \/ auth.user = NULL THEN NULL
    ELSE LET rows == {r \in requests : /\ r.id = RequestId
                                       /\ RequestsSelectUsing(auth.user[1], r)}
         IN IF rows = {} THEN NULL ELSE Some(CHOOSE r \in rows : TRUE)

\* fetchRequestDetails after its first await: the request was not returned
\* (toast, push, setLoading(false) in the finally block), or it is set and
\* the profiles of its users are requested
fetchRequestDetailsResumes(i, fails) ==
    LET f == requestDetail.fetches[i]
        requestData == FetchedRequest(fails)
    IN
    /\ i \in 1..Len(requestDetail.fetches)
    /\ f.stage = "details"
    /\ IF requestData = NULL
         THEN /\ Len(toasts) < MaxToasts
              /\ Len(router) < MaxPushes
              /\ toasts' = Append(toasts, Toast("error", "Request not found"))
              /\ router' = Append(router, Push("/reque/my-requests", "fetchRequestDetails"))
              /\ requestDetail' =
                    [requestDetail EXCEPT !.fetches = SeqRemove(@, i),
                                          !.loading = IF f.live THEN FALSE ELSE @]
         ELSE /\ requestDetail' =
                    [requestDetail EXCEPT
                        !.fetches[i] = [f EXCEPT !.stage = "profiles"],
                        !.request = IF f.live THEN requestData ELSE @]
              /\ UNCHANGED <<toasts, router>>
    /\ UNCHANGED <<dbVars, auth, protectedRoute, newRequest>>

\* fetchRequestDetails after its second await: setLoading(false) in the
\* finally block
fetchProfilesResumes(i) ==
    LET f == requestDetail.fetches[i] IN
    /\ i \in 1..Len(requestDetail.fetches)
    /\ f.stage = "profiles"
    /\ requestDetail' =
          [requestDetail EXCEPT !.fetches = SeqRemove(@, i),
                                !.loading = IF f.live THEN FALSE ELSE @]
    /\ UNCHANGED <<dbVars, auth, protectedRoute, router, toasts, newRequest>>

\* a call of fetchRequestDetails: setLoading(true) and the three selects
FetchStarted(s, live) ==
    [s EXCEPT !.loading = IF live THEN TRUE ELSE @,
              !.fetches = Append(@, [stage |-> "details", live |-> live])]

\* { ...request, <column>: <value> }
Changed(row, handler, value) ==
    IF handler = "status" THEN [row EXCEPT !.status = value]
    ELSE [row EXCEPT !.priority = value]

\* supabase.from('requests').update({...}).eq('id', id) of the session uid:
\* the rows with that id the UPDATE policy lets the session see
UpdateTargets(uid, id) ==
    {r \in requests : r.id = id /\ RequestsUpdateUsing(uid, r)}

\* the statement raises an error: the policy's check, a foreign key, or the
\* trigger's insert into request_activity
UpdateRefused(uid, old, new) ==
    ~(/\ uid \in authUsers
      /\ RequestsUpdateCheck(uid, new)
      /\ RequestForeignKeys(new)
      /\ ActivityForeignKeys(log_request_status_change(old, new, uid), requests))

\* the error the update returns; fails is an error of the transport.  An
\* update that finds no row returns no error
UpdateError(uid, id, handler, value, fails) ==
    \/ fails
    \/ \E old \in UpdateTargets(uid, id) :
          UpdateRefused(uid, old, Changed(old, handler, value))

\* a handler up to its await: it returns at once without a request or a
\* user, else the backend executes the update
UpdateAwaited(handler, value, fails) ==
    LET uid == auth.user[1]
        captured == requestDetail.request[1]
        error == UpdateError(uid, captured.id, handler, value, fails)
        call == [handler |-> handler, value |-> value, request |-> captured,
                 error |-> error, live |-> TRUE]
    IN
    /\ requestDetail.request # NULL /\ auth.user # NULL
    /\ ControlsShown
    /\ Cardinality(requestDetail.calls) < MaxCalls
    /\ call \notin requestDetail.calls
    /\ IF error \/ UpdateTargets(uid, captured.id) = {}
         THEN UNCHANGED dbVars
         ELSE /\ \E old \in UpdateTargets(uid, captured.id) :
                    UpdateRequestStatement(uid, old, Changed(old, handler, value))
              /\ UNCHANGED statements
    /\ requestDetail' = [requestDetail EXCEPT !.calls = @ \cup {call}]
    /\ UNCHANGED <<auth, protectedRoute, router, toasts, newRequest>>

handleStatusChange(newStatus, fails) ==
    /\ requestDetail.request # NULL
    /\ newStatus # requestDetail.request[1].status
    /\ UpdateAwaited("status", newStatus, fails)

handlePriorityChange(newPriority, fails) ==
    /\ requestDetail.request # NULL
    /\ newPriority # requestDetail.request[1].priority
    /\ UpdateAwaited("priority", newPriority, fails)

\* as the handler would resume if it set the request before it looked at the
\* error
handleStatusChangeResumes_Optimistic(call) ==
    /\ call \in requestDetail.calls
    /\ call.handler = "status"
    /\ Len(toasts) < MaxToasts
    /\ IF call.error
         THEN /\ toasts' = Append(toasts, Toast("error", "Failed to update status"))
              /\ requestDetail' =
                    [requestDetail EXCEPT
                        !.calls = @ \ {call},
                        !.request = IF call.live
                                      THEN Some(Changed(call.request, "status", call.value))
                                      ELSE @]
         ELSE /\ Len(requestDetail.fetches) < MaxFetches
              /\ toasts' = Append(toasts, Toast("success", "Status updated"))
              /\ requestDetail' =
                    FetchStarted(
                        [requestDetail EXCEPT
                            !.calls = @ \ {call},
                            !.request = IF call.live
                                          THEN Some(Changed(call.request, "status", call.value))
                                          ELSE @],
                        call.live)
    /\ UNCHANGED <<dbVars, auth, protectedRoute, router, newRequest>>

\* handleStatusChange after the await: the error is thrown to the catch
\* block, or the request of the handler's render is set with the new status
\* and fetchRequestDetails is called
handleStatusChangeResumes(call) ==
    /\ call \in requestDetail.calls
    /\ call.handler = "status"
    /\ Len(toasts) < MaxToasts
    /\ IF call.error
         THEN /\ toasts' = Append(toasts, Toast("error", "Failed to update status"))
              /\ requestDetail' = [requestDetail EXCEPT !.calls = @ \ {call}]
         ELSE /\ Len(requestDetail.fetches) < MaxFetches
              /\ toasts' = Append(toasts, Toast("success", "Status updated"))
              /\ requestDetail' =
                    FetchStarted(
                        [requestDetail EXCEPT
                            !.calls = @ \ {call},
                            !.request = IF call.live
                                          THEN Some(Changed(call.request, "status", call.value))
                                          ELSE @],
                        call.live)
    /\ UNCHANGED <<dbVars, auth, protectedRoute, router, newRequest>>

\* handlePriorityChange after the await
handlePriorityChangeResumes(call) ==
    /\ call \in requestDetail.calls
    /\ call.handler = "priority"
    /\ Len(toasts) < MaxToasts
    /\ IF call.error
         THEN /\ toasts' = Append(toasts, Toast("error", "Failed to update priority"))
              /\ requestDetail' = [requestDetail EXCEPT !.calls = @ \ {call}]
         ELSE /\ Len(requestDetail.fetches) < MaxFetches
              /\ toasts' = Append(toasts, Toast("success", "Priority updated"))
              /\ requestDetail' =
                    FetchStarted(
                        [requestDetail EXCEPT
                            !.calls = @ \ {call},
                            !.request = IF call.live
                                          THEN Some(Changed(call.request, "priority", call.value))
                                          ELSE @],
                        call.live)
    /\ UNCHANGED <<dbVars, auth, protectedRoute, router, newRequest>>

\* another session deletes the request
OtherSessionDeletes(uid) ==
    /\ Some(uid) # auth.user
    /\ \E row \in requests : row.id = RequestId /\ DeleteRequestStatement(uid, row)
    /\ UNCHANGED <<statements, pageVars>>

\* the requests the page can be opened on
SeedRequests ==
    {r \in RequestRows(RequestId) :
        /\ r.status = "new" /\ r.priority = "normal" /\ r.due_date = NULL
        /\ r.assigned_to = NULL
        /\ RequestForeignKeys(r)}

\* the row the trigger on_request_created logged for such a request
SeedActivity(r) ==
    LET v == log_request_created(r)[1] IN
    [id |-> 1, request_id |-> v.request_id, user_id |-> v.user_id,
     activity_type |-> v.activity_type,
     old_value |-> v.old_value, new_value |-> v.new_value]

\* the page has just been opened on a stored request
RequestDetailInit ==
    /\ SeededUsers
    /\ requests \in {{r} : r \in SeedRequests}
    /\ activity = {SeedActivity(r) : r \in requests}
    /\ nextRequestId = 2
    /\ nextActivityId = 2
    /\ auth \in AuthStates
    /\ protectedRoute = [mounted |-> TRUE, page |-> "request-detail",
                         requireAuth |-> TRUE, showTimeout |-> FALSE, timer |-> TRUE]
    /\ router = RedirectEffect(auth, TRUE)
    /\ toasts = <<>>
    /\ newRequest = NewRequestClosed
    /\ requestDetail = IF RouteOutput(auth, TRUE, FALSE) = "children"
                         THEN RequestDetailMounted({}, <<>>)
                         ELSE RequestDetailClosed

RequestDetailNext ==
    \/ \E a \in AuthStates : AuthStateChange(a)
    \/ \E i \in 1..MaxFetches, fails \in BOOLEAN : fetchRequestDetailsResumes(i, fails)
    \/ \E i \in 1..MaxFetches : fetchProfilesResumes(i)
    \/ \E s \in StatusInputs, fails \in BOOLEAN : handleStatusChange(s, fails)
    \/ \E p \in PriorityInputs, fails \in BOOLEAN : handlePriorityChange(p, fails)
    \/ \E call \in requestDetail.calls : handleStatusChangeResumes(call)
    \/ \E call \in requestDetail.calls : handlePriorityChangeResumes(call)
    \/ \E uid \in Users : OtherSessionDeletes(uid)

RequestDetailSpec == RequestDetailInit /\ [][RequestDetailNext]_vars

FailureText(handler) ==
    IF handler = "status" THEN "Failed to update status" ELSE "Failed to update priority"

\* C23: in handleStatusChange and handlePriorityChange, when the backend
\* update returns an error the locally held request is left unchanged, an
\* error toast is raised and no refetch is started; the local status or
\* priority changes to the new value only in the step in which a handler
\* resumes from an update that returned no error (every other change of the
\* local request is the result of a fetch or the unmounted page).
C23_UpdateErrorLeavesRequest ==
    [][/\ \A call \in requestDetail.calls :
             ((handleStatusChangeResumes(call) \/ handlePriorityChangeResumes(call))
                 /\ call.error) =>
                 /\ requestDetail'.request = requestDetail.request
                 /\ toasts' = Append(toasts, Toast("error", FailureText(call.handler)))
                 /\ requestDetail'.fetches = requestDetail.fetches
                 /\ requestDetail'.loading = requestDetail.loading
                 /\ UNCHANGED dbVars
       /\ (/\ requestDetail'.request # requestDetail.request
           /\ requestDetail'.request # NULL
           /\ ~\E i \in 1..MaxFetches, fails \in BOOLEAN : fetchRequestDetailsResumes(i, fails))
             => \E call \in requestDetail.calls :
                   /\ ~call.error
                   /\ call.live
                   /\ call \notin requestDetail'.calls
                   /\ requestDetail'.request =
                         Some(Changed(call.request, call.handler, call.value))
       /\ \A s \in StatusInputs, p \in PriorityInputs, fails \in BOOLEAN :
             (handleStatusChange(s, fails) \/ handlePriorityChange(p, fails))
                 => requestDetail'.request = requestDetail.request]_vars

\* an update has returned an error and its handler has resumed: the page
\* shows the request with the status and priority it had, the error toast is
\* up and nothing is being fetched
C23_Witness ==
    /\ requestDetail.mounted
    /\ requestDetail.request # NULL
    /\ requestDetail.request[1].status = "new"
    /\ requestDetail.calls = {}
    /\ requestDetail.fetches = <<>>
    /\ toasts # <<>>
    /\ toasts[Len(toasts)] = Toast("error", "Failed to update status")

----------------------------------------------------------------------------
(* ProtectedRoute around any children *)

\* a protected page has just been opened
ProtectedRouteInit ==
    /\ SeededUsers
    /\ NoRequests
    /\ auth \in AuthStates
    /\ \E requireAuth \in BOOLEAN :
          /\ protectedRoute = [mounted |-> TRUE, page |-> "none",
                               requireAuth |-> requireAuth,
                               showTimeout |-> FALSE, timer |-> TRUE]
          /\ router = RedirectEffect(auth, requireAuth)
    /\ toasts = <<>>
    /\ newRequest = NewRequestClosed
    /\ requestDetail = RequestDetailClosed

ProtectedRouteNext ==
    \/ \E a \in AuthStates : AuthStateChange(a)
    \/ TimeoutFires
    \/ GoToLogin

ProtectedRouteSpec == ProtectedRouteInit /\ [][ProtectedRouteNext]_vars

\* loading is false, requireAuth is true and no user is present
MustRedirect(a, pr) == ~a.loading /\ pr.requireAuth /\ a.user = NULL

EffectPushes(r) == {i \in 1..Len(r) : r[i] = Push("/login", "effect")}

\* C24: in every state ProtectedRoute renders its children only if auth
\* loading is false and (requireAuth is false or a user is present); when
\* loading is false, requireAuth is true and no user is present it renders
\* nothing and its effect has pushed /login (the push is made in the step
\* that enters such a state); and its effect never pushes /login while
\* loading is true or a user is present.
C24_ProtectedRouteGuards ==
    /\ [](/\ ProtectedRouteOutput = "children" =>
                ~auth.loading /\ (~protectedRoute.requireAuth \/ auth.user # NULL)
          /\ MustRedirect(auth, protectedRoute) =>
                /\ ProtectedRouteOutput = "null"
                /\ router # <<>>
                /\ router[Len(router)] = Push("/login", "effect"))
    /\ [][/\ (MustRedirect(auth', protectedRoute') /\ ~MustRedirect(auth, protectedRoute))
                => router' = Append(router, Push("/login", "effect"))
          /\ EffectPushes(router') # EffectPushes(router)
                => MustRedirect(auth', protectedRoute')]_vars

\* the context was still loading when the timer fired, then it resolved
\* without a user: nothing is rendered and the one push is the effect's
C24_Witness ==
    /\ protectedRoute.mounted
    /\ protectedRoute.showTimeout
    /\ MustRedirect(auth, protectedRoute)
    /\ ProtectedRouteOutput = "null"
    /\ router = <<Push("/login", "effect")>>

====
